---------------------------- MODULE FocusStream ----------------------------
(***************************************************************************)
(* The focused-thread stream of fleet mode: the viewer asks the daemon on  *)
(* one host for the threads of one process group, over the stdin of its    *)
(* ssh child, and reads the answer off the snapshots the daemon prints.    *)
(*                                                                         *)
(*   viewer   route_fleet_focus / RemoteClient::send_focus  (main.rs,      *)
(*            remote.rs) writes one line per change of focus;              *)
(*   daemon   a stdin thread copies each line into a shared cell, the emit *)
(*            loop of run_daemon reads the cell once per tick, samples the *)
(*            threads of that group against the previous tick's counters   *)
(*            and prints a snapshot;                                       *)
(*   viewer   a reader thread queues the snapshots; a poll keeps the       *)
(*            newest one that has arrived.                                 *)
(*                                                                         *)
(* A line and a group are the label App; None is the blank line, the empty *)
(* Option and the missing basis.  Of a snapshot only focus_threads is      *)
(* kept: which group it lists, and against which group's counters its      *)
(* rates were computed (None: rates zeroed, no delta yet).                 *)
(***************************************************************************)
EXTENDS Naturals, Sequences

CONSTANTS
  Host,      \* host names
  App,       \* group labels, as the viewer's rows carry them
  None,      \* the empty Option, and the blank focus line
  HostOf,    \* hostname of each entry of fleet_clients, in its order
  Trim,      \* what str::trim leaves of each label (None: nothing)
  Steady,    \* groups that have a live process at every sample
  Elapsed,   \* whether a jiffy goes by between two samples: {TRUE} when the
             \* interval is longer than one, else BOOLEAN
  MaxPipe,   \* bound: focus lines in flight per connection
  MaxChan    \* bound: snapshots in flight per connection

Conn == DOMAIN HostOf
MaybeApp == App \cup {None}
Target == [host: Host \cup {None}, app: MaybeApp]
Stream == [app: MaybeApp, basis: MaybeApp]
NoStream == [app |-> None, basis |-> None]

ASSUME FocusStreamAssumption ==
  /\ None \notin App \cup Host
  /\ HostOf \in Seq(Host)
  /\ Trim \in [App -> MaybeApp]
  /\ Steady \subseteq App
  /\ Elapsed \subseteq BOOLEAN
  /\ MaxPipe \in Nat \ {0}
  /\ MaxChan \in Nat \ {0}

VARIABLES
  up,          \* the ssh child, and the daemon behind it, still run
  polled,      \* the view in charge polls the fleet and routes its focus
  target,      \* what drill_focus returned at the last poll
  lastFocus,   \* RemoteClient::last_focus
  pipe,        \* focus lines between the viewer and the stdin thread
  focus,       \* the daemon's shared focus cell
  prevLabel,   \* run_daemon's prev_focus_label
  prevSnap,    \* the group whose counters prev_focus_snap holds
  chan,        \* snapshots printed and not yet taken by the viewer
  snap         \* focus_threads of the FleetConn's latest snapshot

viewerVars == <<polled, target, lastFocus, snap>>
daemonVars == <<focus, prevLabel, prevSnap>>
vars == <<up, polled, target, lastFocus, pipe, focus, prevLabel, prevSnap, chan, snap>>

TypeOK ==
  /\ up \in [Conn -> BOOLEAN]
  /\ polled \in BOOLEAN
  /\ target \in Target
  /\ lastFocus \in [Conn -> MaybeApp]
  /\ pipe \in [Conn -> Seq(MaybeApp)]
  /\ focus \in [Conn -> MaybeApp]
  /\ prevLabel \in [Conn -> MaybeApp]
  /\ prevSnap \in [Conn -> MaybeApp]
  /\ chan \in [Conn -> Seq(Stream)]
  /\ snap \in [Conn -> Stream]

Init ==
  /\ up = [c \in Conn |-> TRUE]
  /\ polled = TRUE
  /\ target = [host |-> None, app |-> None]
  /\ lastFocus = [c \in Conn |-> None]
  /\ pipe = [c \in Conn |-> <<>>]
  /\ focus = [c \in Conn |-> None]
  /\ prevLabel = [c \in Conn |-> None]
  /\ prevSnap = [c \in Conn |-> None]
  /\ chan = [c \in Conn |-> <<>>]
  /\ snap = [c \in Conn |-> NoStream]

-----------------------------------------------------------------------------
(* The viewer.                                                             *)

\* refresh polls the fleet and routes the focus unless the display is paused,
\* and is not called at all in a Remote view.  There the loop polls the host
\* that was entered, paused or not, and nothing for a client of its own.  The
\* keys p, Enter, Esc and l and the loss of a host change which of these holds.
ViewKey ==
  /\ polled' = ~polled
  /\ UNCHANGED <<up, target, lastFocus, pipe, daemonVars, chan, snap>>

\* The first k of a queue, and the rest of it.
Taken(q, k) == SubSeq(q, 1, k)
Left(q, k) == SubSeq(q, k + 1, Len(q))

\* The focus route_fleet_focus computes for connection c.
WantOnEveryHost(c, t) == t.app
Want(c, t) == IF HostOf[c] = t.host THEN t.app ELSE None

\* send_focus writes when the request differs from the last one; a write to
\* the pipe of a dead child fails and the failure is ignored.
SendsNoBlank(c, t) == up[c] /\ Want(c, t) # None /\ Want(c, t) # lastFocus[c]
Sends(c, t) == up[c] /\ Want(c, t) # lastFocus[c]

RouteFocus(t) ==
  /\ \A c \in Conn : Sends(c, t) => Len(pipe[c]) < MaxPipe
  /\ lastFocus' = [c \in Conn |-> Want(c, t)]
  /\ pipe' = [c \in Conn |->
       IF Sends(c, t) THEN Append(pipe[c], Want(c, t)) ELSE pipe[c]]

\* try_recv drains what has arrived and keeps the newest of it; got[c] is how
\* many of the snapshots in flight have arrived.  A poll of the fleet face
\* drains every connection, a poll of the entered host only its own: the
\* others then have got[c] = 0.
Drain(got) ==
  /\ \A c \in Conn : got[c] <= Len(chan[c])
  /\ snap' = [c \in Conn |-> IF got[c] = 0 THEN snap[c] ELSE chan[c][got[c]]]
  /\ chan' = [c \in Conn |-> Left(chan[c], got[c])]

Poll(t, got) ==
  /\ polled
  /\ target' = t
  /\ Drain(got)
  /\ RouteFocus(t)
  /\ UNCHANGED <<up, polled, daemonVars>>

-----------------------------------------------------------------------------
(* The daemon.                                                             *)

\* Trim the line; an empty line clears the focus.
ParseUnchecked(line) == IF line = None THEN "" ELSE Trim[line]
ParseLine(line) == IF line = None THEN None ELSE Trim[line]

ReadLineIgnoringBlank(c) ==
  /\ up[c]
  /\ pipe[c] # <<>>
  /\ focus' = [focus EXCEPT ![c] =
       IF Head(pipe[c]) = None THEN @ ELSE ParseLine(Head(pipe[c]))]
  /\ pipe' = [pipe EXCEPT ![c] = Tail(@)]
  /\ UNCHANGED <<up, viewerVars, prevLabel, prevSnap, chan>>

ReadLine(c) ==
  /\ up[c]
  /\ pipe[c] # <<>>
  /\ focus' = [focus EXCEPT ![c] = ParseLine(Head(pipe[c]))]
  /\ pipe' = [pipe EXCEPT ![c] = Tail(@)]
  /\ UNCHANGED <<up, viewerVars, prevLabel, prevSnap, chan>>

\* The delta basis that survives a change of focus: none.
BasisNeverReset(c) == prevSnap[c]
BasisAlwaysReset(c) == None
Basis(c) == IF prevLabel[c] = focus[c] THEN prevSnap[c] ELSE None

\* The viewer keeps only the newest arrival, so the model forgets the oldest
\* snapshot in flight when MaxChan of them are waiting.
Enqueue(queue, s) ==
  Append(IF Len(queue) < MaxChan THEN queue ELSE Tail(queue), s)

\* One turn of the emit loop.  live is the set of groups local::sample found
\* processes for; elapsed says that at least one jiffy went by since the
\* counters of the basis were read (sample_threads zeroes the rates otherwise).
DaemonTick(c, live, elapsed) ==
  LET sampled == focus[c] \in live
  IN  /\ up[c]
      /\ prevLabel' = [prevLabel EXCEPT ![c] = focus[c]]
      /\ prevSnap' = [prevSnap EXCEPT ![c] =
           IF sampled THEN focus[c] ELSE Basis(c)]
      /\ chan' = [chan EXCEPT ![c] = Enqueue(@,
           IF sampled
             THEN [app |-> focus[c], basis |-> IF elapsed THEN Basis(c) ELSE None]
             ELSE NoStream)]
      /\ UNCHANGED <<up, viewerVars, pipe, focus>>

\* The ssh child exits: what the reader thread had not read by then is lost.
\* Nothing reconnects a FleetConn.
Die(c, kept) ==
  /\ up[c]
  /\ kept <= Len(chan[c])
  /\ up' = [up EXCEPT ![c] = FALSE]
  /\ pipe' = [pipe EXCEPT ![c] = <<>>]
  /\ chan' = [chan EXCEPT ![c] = Taken(@, kept)]
  /\ UNCHANGED <<viewerVars, daemonVars>>

-----------------------------------------------------------------------------
LiveSets == {live \in SUBSET App : Steady \subseteq live}

Next ==
  \/ ViewKey
  \/ \E t \in Target, got \in [Conn -> 0 .. MaxChan] : Poll(t, got)
  \/ \E c \in Conn : ReadLine(c)
  \/ \E c \in Conn, live \in LiveSets, elapsed \in Elapsed :
       DaemonTick(c, live, elapsed)
  \/ \E c \in Conn, kept \in 0 .. MaxChan : Die(c, kept)

\* A view that polls does so at least once per interval, and what a daemon
\* printed arrives: whichever view it is, the connection of the target is
\* drained.
PollTarget ==
  \E t \in Target, got \in [Conn -> 0 .. MaxChan] :
    /\ \A c \in Conn : HostOf[c] = t.host => got[c] = Len(chan[c])
    /\ Poll(t, got)

\* Weak fairness asks for a poll only of a view that goes on polling; the keys
\* owe nothing.  The stdin thread and the emit loop run as long as the process.
Fairness ==
  /\ WF_vars(PollTarget)
  /\ \A c \in Conn :
       /\ WF_vars(ReadLine(c))
       /\ WF_vars(\E live \in LiveSets, elapsed \in Elapsed :
                    DaemonTick(c, live, elapsed))

Spec == Init /\ [][Next]_vars
FairSpec == Spec /\ Fairness

-----------------------------------------------------------------------------
(* Properties.                                                             *)

UniqueHosts == \A c, d \in Conn : HostOf[c] = HostOf[d] => c = d
TrimmedLabels == \A a \in App : Trim[a] = a

\* Once a daemon has read every line sent to it, its focus cell holds the
\* viewer's last request: deduplicating on last_focus loses no change of focus.
FocusDelivered ==
  \A c \in Conn : up[c] /\ pipe[c] = <<>> => focus[c] = lastFocus[c]

\* route_fleet_focus sends None to every host but one, so once the lines sent
\* have been read at most one daemon samples threads.
OneSamplerWhenSettled ==
  (\A c \in Conn : up[c] => pipe[c] = <<>>) =>
    \A c, d \in Conn :
      up[c] /\ up[d] /\ focus[c] # None /\ focus[d] # None => c = d

\* A thread rate is never the difference between the counters of two groups,
\* in the snapshots shown or in those on their way.
SameGroup(s) == s.basis \in {None, s.app}
NoCrossGroupRates ==
  \A c \in Conn :
    /\ SameGroup(snap[c])
    /\ \A i \in 1 .. Len(chan[c]) : SameGroup(chan[c][i])

\* A selection held long enough under a view that polls is served: the viewer
\* ends up showing the threads of the selected group only, with real rates,
\* whatever requests for other groups were in flight when it was made, and
\* however often the display was paused before (Elapsed = {TRUE}).
FocusServed ==
  \A c \in Conn, a \in Steady :
    <>[](up[c] /\ polled /\ target = [host |-> HostOf[c], app |-> a]) =>
      <>[](snap[c] = [app |-> a, basis |-> a])

\* A host the selection has left for good stops sampling threads.
FocusReleased ==
  \A c \in Conn :
    <>[](up[c] /\ target.host # HostOf[c]) =>
      <>[](prevLabel[c] = None /\ prevSnap[c] = None)
=============================================================================
