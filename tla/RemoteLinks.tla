--------------------------- MODULE RemoteLinks ----------------------------
(* Connections to daemons and thin probes, from the attempt to connect to  *)
(* the end of the reader thread: the fan-out at start-up, one thread per   *)
(* host, pod or allocation, and the connection of a drill-down, which      *)
(* tries several addresses.  The child is ssh, kubectl or nomad.           *)
EXTENDS Naturals, Sequences, SequencesExt

CONSTANTS
  Slot,        \* connections there may be
  Address,     \* host names, pod names, allocations and addresses
  Dashed,      \* those that begin with a dash
  Empty,       \* the empty name
  Unfit,       \* those that are empty or hold control characters
  Named,       \* lists a fan-out may be given (--hosts, kubectl, the Nomad API)
  Label,       \* name of the row that is entered
  Interfaces,  \* lists of network interfaces its guest agent may report
  Unroutable,  \* loopback and link-local addresses
  DnsIps,      \* lists DNS may return for it
  MaxTurn,     \* [Slot -> bounds]: snapshots a child prints
  MaxOut       \* bound: lines in a child's stdout pipe

ASSUME RemoteLinksAssumption ==
  /\ Slot \subseteq Nat \ {0}
  /\ Label \in Address /\ Dashed \subseteq Address /\ Empty \in Unfit /\ Unfit \subseteq Address
  /\ Named \subseteq Seq(Address) /\ DnsIps \subseteq Seq(Address) /\ Unroutable \subseteq Address
  /\ Interfaces \subseteq Seq([loopback : BOOLEAN, ips : Seq([addr : Address, kind : {"ipv4", "ipv6"}])])
  /\ MaxTurn \in [Slot -> Nat] /\ MaxOut \in Nat

VARIABLES
  source, thin,   \* how the program was started
  target,         \* [Slot -> lists of addresses] to connect to
  todo,           \* addresses not tried yet
  phase,          \* how far the connection is
  child, out,     \* the child process and its stdout, not read yet
  turn,           \* snapshots the child has printed (history)
  reader,         \* the reader thread
  block, prev,    \* of a thin reader: counters of this block and of the last, 0 for none
  rx, chan,       \* whether the receiver exists, and what waits in its channel
  results,        \* connection threads that have answered, in that order
  started, conns, \* AppState::new has returned; fleet_clients (kube_conns, nomad_conns)
  snap, lost,     \* of a connection: snapshot shown, 0 for none; "connection lost"
  paused,
  inRemote, fleetHost \* in the Remote view, and the entered connection in it:
                  \* {} when a client of its own serves that view

startVars == <<source, thin, target>>
childVars == <<child, out, turn>>
readerVars == <<reader, block, prev>>
remoteVars == <<inRemote, fleetHost>>
viewVars == <<started, conns, snap, lost, paused, remoteVars>>
vars == <<startVars, todo, phase, childVars, readerVars, rx, chan, results, viewVars>>

Source == {"fleet", "kube", "nomad", "vm"}
Phase == {"idle", "trying", "probation", "ok", "failed", "closed", "dropped"}
Line == [kind : {"snapshot", "stat"}, n : Nat] \cup [kind : {"===", "noise"}, n : {0}]
Separator == [kind |-> "===", n |-> 0]
Noise == [kind |-> "noise", n |-> 0]
\* since: the counters its CPU percentage starts from, 0 when it has none.
Snapshot == [n : Nat, since : Nat]

---------------------------------------------------------------------------
(* What to connect to.                                                     *)

ValidSsh(a) == a \notin Dashed
ValidKube(a) == a \notin Dashed \cup Unfit
ValidNomad(a) == a \notin Dashed \cup Unfit

\* parse_hosts_arg drops empty names and refuses the list for a dashed one.
HostList(list) == SelectSeq(list, LAMBDA a : a # Empty)
HostsRefused(list) == HostList(list) = <<>> \/ \E i \in DOMAIN HostList(list) : ~ValidSsh(HostList(list)[i])

\* discover_pods keeps every pod with a name, discover_nomad_allocs those
\* that can be a target.
KubePods(list) == SelectSeq(list, LAMBDA a : a # Empty)
NomadAllocs(list) == SelectSeq(list, ValidNomad)

\* get_vm_ips: what can be routed, IPv4 before IPv6.
GetVmIps(ifaces) ==
  LET outer == SelectSeq(ifaces, LAMBDA iface : ~iface.loopback)
      ips == SelectSeq(FlattenSeq([i \in DOMAIN outer |-> outer[i].ips]),
                       LAMBDA ip : ip.addr \notin Unroutable)
      sorted == SelectSeq(ips, LAMBDA ip : ip.kind = "ipv4")
                  \o SelectSeq(ips, LAMBDA ip : ip.kind # "ipv4")
  IN [i \in DOMAIN sorted |-> sorted[i].addr]

\* None from a container, or when the agent does not answer.
AgentIps == {<<>>} \cup {GetVmIps(ifaces) : ifaces \in Interfaces}

\* DNS addresses and the label are added unless they are there already.
BuildCandidates(label, agent, dns) ==
  FoldLeft(LAMBDA list, a : IF Contains(list, a) THEN list ELSE Append(list, a),
           agent, Append(dns, label))

FanOut(list) == [s \in Slot |-> IF s \in DOMAIN list THEN <<list[s]>> ELSE <<>>]
FleetTargets == {FanOut(HostList(list)) : list \in {l \in Named : ~HostsRefused(l)}}
KubeTargets == {FanOut(KubePods(list)) : list \in Named}
NomadTargets == {FanOut(NomadAllocs(list)) : list \in Named}
VmTargets == {[s \in Slot |-> IF s = 1 THEN BuildCandidates(Label, agent, dns) ELSE <<>>] :
                agent \in AgentIps, dns \in DnsIps}

Targets == {s \in Slot : target[s] # <<>>}

Init ==
  /\ source \in Source /\ thin \in (IF source = "vm" THEN {FALSE} ELSE BOOLEAN)
  /\ target \in CASE source = "fleet" -> FleetTargets
                  [] source = "kube" -> KubeTargets
                  [] source = "nomad" -> NomadTargets
                  [] source = "vm" -> VmTargets
  /\ todo = target
  /\ phase = [s \in Slot |-> IF target[s] = <<>> THEN "idle" ELSE "trying"]
  /\ child = [s \in Slot |-> "none"]
  /\ out = [s \in Slot |-> <<>>]
  /\ turn = [s \in Slot |-> 0]
  /\ reader = [s \in Slot |-> "none"]
  /\ block = [s \in Slot |-> 0]
  /\ prev = [s \in Slot |-> 0]
  /\ rx = [s \in Slot |-> FALSE]
  /\ chan = [s \in Slot |-> <<>>]
  /\ results = <<>>
  /\ started = FALSE
  /\ conns = <<>>
  /\ snap = [s \in Slot |-> 0]
  /\ lost = [s \in Slot |-> FALSE]
  /\ paused = FALSE
  /\ inRemote = FALSE /\ fleetHost = {}

---------------------------------------------------------------------------
(* A connection attempt.                                                   *)

Valid(a) == CASE source \in {"fleet", "vm"} -> ValidSsh(a)
              [] source = "kube" -> ValidKube(a)
              [] source = "nomad" -> ValidNomad(a)

\* The thread of a fan-out sends its result when it has one.
Answer(s) == results' = IF source = "vm" THEN results ELSE Append(results, s)

\* The address did not do: connect_vm goes on with the next one.
GiveUp(s) ==
  /\ todo' = [todo EXCEPT ![s] = Tail(@)]
  /\ rx' = [rx EXCEPT ![s] = FALSE]
  /\ chan' = [chan EXCEPT ![s] = <<>>]
  /\ IF Tail(todo[s]) = <<>>
     THEN phase' = [phase EXCEPT ![s] = "failed"] /\ Answer(s)
     ELSE phase' = [phase EXCEPT ![s] = "trying"] /\ UNCHANGED results

\* Not a name to pass to the command.
Refused(s) == /\ phase[s] = "trying" /\ ~Valid(Head(todo[s]))
              /\ GiveUp(s)
              /\ UNCHANGED <<startVars, childVars, readerVars, viewVars>>

\* Port 22 of a virtual machine does not open in two seconds, or there is no
\* such command here.
Unreachable(s) == /\ phase[s] = "trying" /\ Valid(Head(todo[s]))
                  /\ GiveUp(s)
                  /\ UNCHANGED <<startVars, childVars, readerVars, viewVars>>

\* A child with a pipe, a channel and a reader thread between the two.
Spawn(s) ==
  /\ phase[s] = "trying"
  /\ Valid(Head(todo[s]))
  /\ phase' = [phase EXCEPT ![s] = "probation"]
  /\ child' = [child EXCEPT ![s] = "running"]
  /\ out' = [out EXCEPT ![s] = <<>>]
  /\ turn' = [turn EXCEPT ![s] = 0]
  /\ reader' = [reader EXCEPT ![s] = "reading"]
  /\ block' = [block EXCEPT ![s] = 0]
  /\ prev' = [prev EXCEPT ![s] = 0]
  /\ rx' = [rx EXCEPT ![s] = TRUE]
  /\ chan' = [chan EXCEPT ![s] = <<>>]
  /\ snap' = [snap EXCEPT ![s] = 0]
  /\ UNCHANGED <<startVars, todo, results, started, conns, lost, paused, remoteVars>>

ConnectDirect(s) == source \in {"fleet", "vm"} /\ ~thin /\ Spawn(s)
ConnectThin(s) == source = "fleet" /\ thin /\ Spawn(s)
ConnectKubeDaemon(s) == source = "kube" /\ ~thin /\ Spawn(s)
ConnectKubeThin(s) == source = "kube" /\ thin /\ Spawn(s)
ConnectNomadDaemon(s) == source = "nomad" /\ ~thin /\ Spawn(s)
ConnectNomadThin(s) == source = "nomad" /\ thin /\ Spawn(s)
Connect(s) == \/ ConnectDirect(s) \/ ConnectThin(s)
              \/ ConnectKubeDaemon(s) \/ ConnectKubeThin(s)
              \/ ConnectNomadDaemon(s) \/ ConnectNomadThin(s)

\* Fault: a child that has printed nothing yet is taken for a failure.
SettledEarly(s) ==
  /\ phase[s] = "probation"
  /\ IF turn[s] > 0
     THEN /\ phase' = [phase EXCEPT ![s] = "ok"]
          /\ Answer(s)
          /\ UNCHANGED <<todo, rx, chan>>
     ELSE GiveUp(s)
  /\ UNCHANGED <<startVars, childVars, readerVars, viewVars>>

\* After 600 ms: a child that is still there is a connection.
Settled(s) ==
  /\ phase[s] = "probation"
  /\ IF child[s] = "running"
     THEN /\ phase' = [phase EXCEPT ![s] = "ok"]
          /\ Answer(s)
          /\ UNCHANGED <<todo, rx, chan>>
     ELSE GiveUp(s)
  /\ UNCHANGED <<startVars, childVars, readerVars, viewVars>>

---------------------------------------------------------------------------
(* The child and the reader thread.                                        *)

Put(s, line) == out' = [out EXCEPT ![s] = Append(@, line)]

\* Somebody else's output, a login banner, before the first line.
Banner(s) == /\ child[s] = "running" /\ turn[s] = 0 /\ out[s] = <<>> /\ reader[s] = "reading"
             /\ Put(s, Noise)
             /\ UNCHANGED <<startVars, todo, phase, child, turn, readerVars, rx, chan, results, viewVars>>

\* One turn of the daemon, or of the shell loop of a thin probe.  Once its
\* pipe has no reader, the child ends of a broken pipe; what it prints after
\* nobody receives it any more is not counted.
Emit(s) ==
  /\ child[s] = "running" /\ Len(out[s]) < MaxOut
  /\ IF reader[s] = "done"
     THEN child' = [child EXCEPT ![s] = "exited"] /\ UNCHANGED <<out, turn>>
     ELSE LET n == IF rx[s] \/ turn[s] = 0 THEN turn[s] + 1 ELSE turn[s]
          IN /\ n \in 1..MaxTurn[s]
             /\ turn' = [turn EXCEPT ![s] = n]
             /\ IF thin
                THEN out' = [out EXCEPT ![s] = Append(Append(@, [kind |-> "stat", n |-> n]), Separator)]
                ELSE Put(s, [kind |-> "snapshot", n |-> n])
             /\ UNCHANGED child
  /\ UNCHANGED <<startVars, todo, phase, readerVars, rx, chan, results, viewVars>>

\* A turn of the shell loop in which /proc/stat cannot be read.
EmitBare(s) ==
  /\ thin /\ child[s] = "running" /\ reader[s] = "reading" /\ out[s] = <<>>
  /\ Put(s, Separator)
  /\ UNCHANGED <<startVars, todo, phase, child, turn, readerVars, rx, chan, results, viewVars>>

\* The child ends, of itself or with the network, possibly inside a line.
Exit(s) ==
  /\ child[s] = "running"
  /\ child' = [child EXCEPT ![s] = "exited"]
  /\ UNCHANGED out \/ Put(s, Noise)
  /\ UNCHANGED <<startVars, todo, phase, turn, readerVars, rx, chan, results, viewVars>>

\* Fault: the reader goes on when nobody receives.
SendIgnored(s, sn) == /\ chan' = IF rx[s] THEN [chan EXCEPT ![s] = Append(@, sn)] ELSE chan
                      /\ UNCHANGED reader

\* tx.send: without a receiver the thread leaves its loop.
Send(s, sn) == IF rx[s] THEN /\ chan' = [chan EXCEPT ![s] = Append(@, sn)]
                             /\ UNCHANGED reader
               ELSE reader' = [reader EXCEPT ![s] = "done"] /\ UNCHANGED chan

\* Fault: the block is kept after its separator.
BlockAfterAny(s, line) == IF line.kind = "stat" THEN line.n ELSE block[s]

\* The block is empty again after a separator, whatever was in it.
BlockAfter(s, line) == IF line.kind = "stat" THEN line.n
                       ELSE IF line.kind = "===" THEN 0 ELSE block[s]

\* parse_thin_block: no percentage without earlier counters to start from.
ThinSnapshot(s) == [n |-> block[s], since |-> IF prev[s] < block[s] THEN prev[s] ELSE 0]

ReadLine(s) ==
  LET line == Head(out[s])
  IN /\ reader[s] = "reading" /\ out[s] # <<>>
     /\ out' = [out EXCEPT ![s] = Tail(@)]
     /\ block' = [block EXCEPT ![s] = BlockAfter(s, line)]
     /\ \/ /\ line.kind = "snapshot"
           /\ Send(s, [n |-> line.n, since |-> 0])
           /\ UNCHANGED prev
        \/ /\ line.kind = "===" /\ block[s] # 0
           /\ prev' = [prev EXCEPT ![s] = block[s]]
           /\ Send(s, ThinSnapshot(s))
        \/ /\ line.kind \in {"stat", "noise"} \/ (line.kind = "===" /\ block[s] = 0)
           /\ UNCHANGED <<reader, prev, chan>>
     /\ UNCHANGED <<startVars, todo, phase, child, turn, rx, results, viewVars>>

\* The pipe is closed at the other end and empty.
ReadEnd(s) ==
  /\ reader[s] = "reading" /\ out[s] = <<>> /\ child[s] = "exited"
  /\ reader' = [reader EXCEPT ![s] = "done"]
  /\ UNCHANGED <<startVars, todo, phase, childVars, block, prev, rx, chan, results, viewVars>>

---------------------------------------------------------------------------
(* The display.                                                            *)

\* AppState::new: the channel of the results closes when every thread has
\* sent its own.
Collect ==
  /\ source # "vm" /\ ~started
  /\ Targets \subseteq ToSet(results)
  /\ started' = TRUE /\ conns' = results
  /\ UNCHANGED <<startVars, todo, phase, childVars, readerVars, rx, chan, results, snap, lost, paused, remoteVars>>

FleetConns == source = "fleet" /\ Collect
KubeConns == source = "kube" /\ Collect
NomadConns == source = "nomad" /\ Collect

\* Fault: the oldest snapshot waiting, and no other.
Oldest(s) == IF chan[s] = <<>> THEN snap[s] ELSE Head(chan[s]).n

\* try_recv: the newest snapshot waiting, if any.
Newest(s) == IF chan[s] = <<>> THEN snap[s] ELSE Last(chan[s]).n

\* Fault: a connection whose child has ended is not read any more.
PollLive ==
  /\ started /\ ~paused /\ ~inRemote
  /\ snap' = [s \in Slot |-> IF phase[s] = "ok" /\ child[s] = "running" THEN Newest(s) ELSE snap[s]]
  /\ chan' = [s \in Slot |-> IF phase[s] = "ok" /\ child[s] = "running" THEN <<>> ELSE chan[s]]
  /\ lost' = [s \in Slot |-> lost[s] \/ (phase[s] = "ok" /\ child[s] # "running")]
  /\ UNCHANGED <<startVars, todo, phase, childVars, readerVars, rx, results, started, conns, paused, remoteVars>>

\* refresh in fleet, kube and nomad mode; the loop calls none in Remote.
Poll ==
  /\ started /\ ~paused /\ ~inRemote
  /\ snap' = [s \in Slot |-> IF phase[s] = "ok" THEN Newest(s) ELSE snap[s]]
  /\ chan' = [s \in Slot |-> IF phase[s] = "ok" THEN <<>> ELSE chan[s]]
  /\ lost' = [s \in Slot |-> IF phase[s] # "ok" THEN lost[s]
                             ELSE child[s] # "running" \/ (lost[s] /\ chan[s] = <<>>)]
  /\ UNCHANGED <<startVars, todo, phase, childVars, readerVars, rx, results, started, conns, paused, remoteVars>>

FleetPoll == source = "fleet" /\ Poll
KubePoll == source = "kube" /\ Poll
NomadPoll == source = "nomad" /\ Poll

\* Enter on a host of the face, also back from the threads of one of its
\* groups: the connection it is found under is the first of that name.
EnterHost(s) ==
  /\ source = "fleet" /\ started /\ ~thin /\ ~inRemote /\ phase[s] = "ok"
  /\ \E i \in DOMAIN conns : conns[i] = s /\ \A j \in 1..i - 1 : target[conns[j]] # target[s]
  /\ inRemote' = TRUE /\ fleetHost' = {s}
  /\ UNCHANGED <<startVars, todo, phase, childVars, readerVars, rx, chan, results,
                 started, conns, snap, lost, paused>>

\* Enter on the row of a connection starts another client, for a Remote view
\* that reads nothing else.
OpenClient ==
  /\ source # "vm" /\ started /\ ~thin /\ ~inRemote
  /\ \E s \in Slot : phase[s] = "ok"
  /\ inRemote' = TRUE /\ fleetHost' = {}
  /\ UNCHANGED <<startVars, todo, phase, childVars, readerVars, rx, chan, results,
                 started, conns, snap, lost, paused>>

\* Esc, f, m, Enter on a group and the loss of that client leave the view; d
\* forgets the host and stays.
Leave ==
  /\ inRemote /\ inRemote' \in BOOLEAN /\ fleetHost' = {}
  /\ UNCHANGED <<startVars, todo, phase, childVars, readerVars, rx, chan, results,
                 started, conns, snap, lost, paused>>

\* A turn of the main loop in the Remote view of a host: a loss ends the view
\* and is not noted on the connection.
HostPoll(s) ==
  /\ inRemote /\ fleetHost = {s}
  /\ IF child[s] = "exited"
     THEN inRemote' = FALSE /\ fleetHost' = {} /\ UNCHANGED <<snap, chan>>
     ELSE /\ snap' = [snap EXCEPT ![s] = Newest(s)]
          /\ chan' = [chan EXCEPT ![s] = <<>>]
          /\ UNCHANGED remoteVars
  /\ UNCHANGED <<startVars, todo, phase, childVars, readerVars, rx, results,
                 started, conns, lost, paused>>

\* What the row of a connection says beside its name.
Note(s) == IF thin THEN "(thin)" ELSE IF snap[s] = 0 THEN "connecting" ELSE "groups"
KubeNote(s) == IF phase[s] = "failed" \/ lost[s] THEN "error" ELSE Note(s)
NomadNote(s) == IF phase[s] = "failed" \/ lost[s] THEN "error" ELSE Note(s)

PauseKey == /\ started /\ paused' = ~paused
            /\ UNCHANGED <<startVars, todo, phase, childVars, readerVars, rx, chan, results,
                           started, conns, snap, lost, remoteVars>>

\* RemoteClient::close kills the child and waits for it.
Close(s) == /\ phase' = [phase EXCEPT ![s] = "closed"]
            /\ child' = [child EXCEPT ![s] = "exited"]
            /\ rx' = [rx EXCEPT ![s] = FALSE]
            /\ chan' = [chan EXCEPT ![s] = <<>>]
            /\ UNCHANGED snap

\* A turn of the main loop in the Remote view of remote_client.
PollRemote(s) ==
  /\ source = "vm" /\ phase[s] = "ok"
  /\ IF child[s] = "exited" THEN Close(s)
     ELSE /\ snap' = [snap EXCEPT ![s] = Newest(s)]
          /\ chan' = [chan EXCEPT ![s] = <<>>]
          /\ UNCHANGED <<phase, child, rx>>
  /\ UNCHANGED <<startVars, todo, out, turn, readerVars, results, started, conns, lost, paused, remoteVars>>

Esc(s) == /\ source = "vm" /\ phase[s] = "ok" /\ Close(s)
          /\ UNCHANGED <<startVars, todo, out, turn, readerVars, results, started, conns, lost, paused, remoteVars>>

\* Left by f and replaced by the next Enter, remote_client is dropped as it is.
Replaced(s) ==
  /\ source = "vm" /\ phase[s] = "ok"
  /\ phase' = [phase EXCEPT ![s] = "dropped"]
  /\ rx' = [rx EXCEPT ![s] = FALSE]
  /\ chan' = [chan EXCEPT ![s] = <<>>]
  /\ UNCHANGED <<startVars, todo, childVars, readerVars, results, viewVars>>

\* Enter again, once nothing is left of the connection before.
Enter(s) ==
  /\ source = "vm" /\ phase[s] \in {"failed", "closed", "dropped"}
  /\ child[s] # "running" /\ reader[s] # "reading"
  /\ phase' = [phase EXCEPT ![s] = "trying"]
  /\ todo' = target
  /\ UNCHANGED <<startVars, childVars, readerVars, rx, chan, results, viewVars>>

Attempt(s) == Refused(s) \/ Unreachable(s) \/ Connect(s) \/ Settled(s)
Read(s) == ReadLine(s) \/ ReadEnd(s)

Next == \/ \E s \in Slot : \/ Attempt(s) \/ Banner(s) \/ Emit(s) \/ EmitBare(s) \/ Exit(s)
                           \/ Read(s) \/ PollRemote(s) \/ Esc(s) \/ Replaced(s) \/ Enter(s)
                           \/ EnterHost(s) \/ HostPoll(s)
        \/ FleetConns \/ KubeConns \/ NomadConns
        \/ FleetPoll \/ KubePoll \/ NomadPoll \/ PauseKey \/ OpenClient \/ Leave

Spec == Init /\ [][Next]_vars

\* Threads run, children keep printing, the main loop turns: it refreshes a
\* display that is neither paused nor in Remote, and polls an entered host.
FairSpec == /\ Spec
            /\ \A s \in Slot : /\ WF_vars(Attempt(s)) /\ WF_vars(Read(s)) /\ WF_vars(Emit(s))
            /\ WF_vars(Collect) /\ WF_vars(Poll)
            /\ \A s \in Slot : WF_vars(HostPoll(s))

---------------------------------------------------------------------------
(* Properties.                                                             *)

TypeOK ==
  /\ source \in Source /\ thin \in BOOLEAN
  /\ target \in [Slot -> Seq(Address)] /\ todo \in [Slot -> Seq(Address)]
  /\ phase \in [Slot -> Phase]
  /\ child \in [Slot -> {"none", "running", "exited"}]
  /\ out \in [Slot -> Seq(Line)] /\ turn \in [Slot -> Nat]
  /\ reader \in [Slot -> {"none", "reading", "done"}]
  /\ block \in [Slot -> Nat] /\ prev \in [Slot -> Nat]
  /\ rx \in [Slot -> BOOLEAN] /\ chan \in [Slot -> Seq(Snapshot)]
  /\ results \in Seq(Slot) /\ started \in BOOLEAN /\ conns \in Seq(Slot)
  /\ snap \in [Slot -> Nat] /\ lost \in [Slot -> BOOLEAN] /\ paused \in BOOLEAN
  /\ inRemote \in BOOLEAN /\ fleetHost \subseteq Slot

\* The snapshots of a connection are a register of the latest value: the
\* display skips some, but never shows an old one after a newer one and
\* after a look at a connection has the newest that had come in.
LV == INSTANCE LatestValue WITH
        Link <- Slot,
        made <- turn,
        sent <- [s \in Slot |-> IF chan[s] = <<>> THEN snap[s] ELSE chan[s][Len(chan[s])].n],
        shown <- snap
ShowsLatest == LV!Spec

\* The CPU percentages of a thin probe cover the time without gap or
\* overlap, also over blocks that came without counters: each snapshot that
\* waits starts from the counters of the one sent before it.
IntervalsAbut ==
  \A s \in Slot : \A i \in DOMAIN chan[s] :
    thin => /\ chan[s][i].since < chan[s][i].n
            /\ i > 1 => chan[s][i].since = chan[s][i - 1].n
            /\ i = Len(chan[s]) => prev[s] = chan[s][i].n

\* Every target has its line in the list, once, as soon as the program runs,
\* and no child runs that nothing in the program knows of, unless its client
\* was dropped.
NothingForgotten ==
  /\ started => \A s \in Targets : \E i \in DOMAIN conns :
                  /\ conns[i] = s
                  /\ \A j \in DOMAIN conns : conns[j] = s => j = i
  /\ \A s \in Slot : child[s] = "running" => phase[s] \in {"probation", "ok", "dropped"}

\* A connection of the list whose child has ended, early or late, is marked
\* as lost, in kube and nomad mode in its row, and the last snapshot it
\* printed is on the display, or the display comes to be paused or in Remote,
\* where no refresh looks.  The Remote view of a host that is lost is left,
\* paused or not.
LossTold ==
  \A s \in Slot :
    /\ (source # "vm" /\ phase[s] = "ok" /\ child[s] = "exited")
         ~> \/ paused \/ inRemote
            \/ /\ lost[s] /\ snap[s] = turn[s]
               /\ source = "kube" => KubeNote(s) = "error"
               /\ source = "nomad" => NomadNote(s) = "error"
    /\ (fleetHost = {s} /\ child[s] = "exited") ~> fleetHost # {s}

\* A client that is closed or dropped takes its child and its thread with it.
LetGoEnds ==
  \A s \in Slot : phase[s] \in {"closed", "dropped"}
                    ~> (child[s] # "running" /\ reader[s] # "reading")
=============================================================================
