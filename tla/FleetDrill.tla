----------------------------- MODULE FleetDrill -----------------------------
(***************************************************************************)
(* What a fleet viewer shows, and where it comes from.  The list of hosts, *)
(* the dense view of an entered host and the view of a connection opened   *)
(* from the list all draw the same `entries`, which three writers replace: *)
(* refresh, the poll of the entered host and the poll of the connection.   *)
(* Which of them runs depends on view, fleet_host, remote_client and the   *)
(* pause; keys change those between two polls.                             *)
(*                                                                         *)
(* FleetFace has the selection inside the face; here the keys of the face  *)
(* may pick any host and any group of it.  Quitting is left out.           *)
(***************************************************************************)
EXTENDS Option, Naturals

CONSTANTS
  Host,   \* fleet hosts with a daemon connection
  App     \* group labels

View == {"Groups", "Fleet", "Remote", "Threads", "Manual", "Scope"}
Label == App \cup Host
NoThread == <<>>

ASSUME FleetDrillAssumption ==
  /\ Host # {}
  /\ App \cap Host = {}
  /\ None \notin App \cup Host

VARIABLES
  view,
  title,        \* the label AppView::Remote carries
  fleetHost, fleetThread,
  remoteClient, \* host of remote_client
  clientUp,     \* the child of remote_client runs
  up,           \* the children of the fleet's connections run
  entries,      \* labels of state.entries and the host they came from, or
                \* "list" when they are the list of hosts
  tiles,        \* labels of the body carousel's tiles
  focus,        \* the focused tile
  samples,      \* the drill thread_samples were taken for, if not empty
  paused        \* history_cursor is set

drill == <<view, title, fleetHost, fleetThread>>
links == <<remoteClient, clientUp, up>>
body == <<entries, tiles, focus>>
vars == <<drill, links, body, samples, paused>>

NoEntries == [of |-> None, labels |-> {}]
HostList == [of |-> "list", labels |-> Host]

Init ==
  /\ view = "Groups"
  /\ title = None
  /\ fleetHost = None
  /\ fleetThread = NoThread
  /\ remoteClient = None
  /\ clientUp = FALSE
  /\ up = [h \in Host |-> TRUE]
  /\ entries = HostList
  /\ tiles = Host
  /\ focus \in Host
  /\ samples = NoThread
  /\ paused = FALSE

-----------------------------------------------------------------------------
(* The body.                                                               *)

\* sync_body_tree: one tile per entry; a focus that lost its tile moves to
\* another (the carousel's choice).
SyncBody ==
  /\ tiles' = entries'.labels
  /\ focus' \in IF focus \in tiles' THEN {focus}
                ELSE IF tiles' = {} THEN {None} ELSE tiles'

\* focused_entry_idx: the entry under the focused tile, if there is one.
FocusedEntry == IF focus \in entries.labels THEN focus ELSE None

-----------------------------------------------------------------------------
(* The main loop.                                                          *)

ForAnyDrill(label) == <<fleetThread[1], label>>
\* The drilled host's last snapshot carries threads it sampled for `label`,
\* perhaps not yet the drilled group: those are taken for none.
ForDrill(label) ==
  IF label = fleetThread[2] THEN <<fleetThread[1], label>> ELSE NoThread

\* refresh; a thread view takes what its host streams, which may be threads
\* of any group or none.  While paused it returns at once.
RefreshShown ==
  /\ view \notin {"Remote", "Manual"}
  /\ ~paused
  /\ entries' = HostList
  /\ SyncBody
  /\ IF fleetThread = NoThread THEN UNCHANGED samples
     ELSE samples' \in {NoThread} \cup {ForDrill(l) : l \in Label}
  /\ UNCHANGED <<drill, links, paused>>
Refresh ==
  /\ view # "Remote"
  /\ ~paused
  /\ entries' = HostList
  /\ SyncBody
  /\ IF fleetThread = NoThread THEN UNCHANGED samples
     ELSE samples' \in {NoThread} \cup {ForDrill(l) : l \in Label}
  /\ UNCHANGED <<drill, links, paused>>

\* The Remote view polls the entered host when there is one ...
HostPollWithoutClient(labels) ==
  /\ view = "Remote"
  /\ fleetHost # None
  /\ up[fleetHost]
  /\ remoteClient = None
  /\ entries' = [of |-> fleetHost, labels |-> labels]
  /\ SyncBody
  /\ UNCHANGED <<drill, links, samples, paused>>
HostPoll(labels) ==
  /\ view = "Remote"
  /\ fleetHost # None
  /\ up[fleetHost]
  /\ entries' = [of |-> fleetHost, labels |-> labels]
  /\ SyncBody
  /\ UNCHANGED <<drill, links, samples, paused>>

HostLostOnlyReported ==
  /\ view = "Remote"
  /\ fleetHost # None
  /\ ~up[fleetHost]
  /\ UNCHANGED vars
HostLost ==
  /\ view = "Remote"
  /\ fleetHost # None
  /\ ~up[fleetHost]
  /\ fleetHost' = None
  /\ view' = "Fleet"
  /\ title' = None
  /\ UNCHANGED <<fleetThread, links, body, samples, paused>>

\* ... and else the connection opened from the list.
ClientPoll(labels) ==
  /\ view = "Remote"
  /\ fleetHost = None
  /\ remoteClient # None
  /\ clientUp
  /\ entries' = [of |-> remoteClient, labels |-> labels]
  /\ SyncBody
  /\ UNCHANGED <<drill, links, samples, paused>>

ClientLost ==
  /\ view = "Remote"
  /\ fleetHost = None
  /\ remoteClient # None
  /\ ~clientUp
  /\ remoteClient' = None
  /\ view' = "Groups"
  /\ title' = None
  /\ UNCHANGED <<fleetHost, fleetThread, clientUp, up, body, samples, paused>>

-----------------------------------------------------------------------------
(* Keys.                                                                   *)

EnterHostKeepingRows(h) ==
  /\ view = "Fleet"
  /\ fleetHost' = h
  /\ view' = "Remote"
  /\ title' = h
  /\ UNCHANGED <<fleetThread, links, body, samples, paused>>
\* Enter on the spine of the face.
EnterHost(h) ==
  /\ view = "Fleet"
  /\ fleetHost' = h
  /\ view' = "Remote"
  /\ title' = h
  /\ entries' = NoEntries
  /\ SyncBody
  /\ UNCHANGED <<fleetThread, links, samples, paused>>

ShowStaleThreads(h, label) ==
  /\ fleetThread' = <<h, label>>
  /\ view' = "Threads"
  /\ title' = None
  /\ UNCHANGED <<fleetHost, links, body, samples, paused>>
ShowThreadsSwapped(h, label) ==
  /\ fleetThread' = <<label, h>>
  /\ samples' = NoThread
  /\ view' = "Threads"
  /\ title' = None
  /\ UNCHANGED <<fleetHost, links, body, paused>>
ShowThreads(h, label) ==
  /\ fleetThread' = <<h, label>>
  /\ samples' = NoThread
  /\ view' = "Threads"
  /\ title' = None
  /\ UNCHANGED <<fleetHost, links, body, paused>>

\* Enter on a group of the face, or on the focused row of an entered host.
EnterThreads ==
  \/ /\ view = "Fleet"
     /\ \E h \in Host, a \in App : ShowThreads(h, a)
  \/ /\ view = "Remote"
     /\ fleetHost # None
     /\ FocusedEntry # None
     /\ ShowThreads(fleetHost, FocusedEntry)

\* Enter on a row of the list opens a connection to that host; connect_direct
\* may fail, which leads back to the list.  The rows may not be hosts, when
\* the pause keeps a remote view's rows on screen.
Connect ==
  /\ view = "Groups"
  /\ FocusedEntry \in Host
  /\ view' = "Remote"
  /\ title' = FocusedEntry
  /\ remoteClient' = FocusedEntry
  /\ clientUp' = TRUE
  /\ entries' = NoEntries
  /\ SyncBody
  /\ UNCHANGED <<fleetHost, fleetThread, up, samples, paused>>

Esc ==
  \/ /\ view = "Threads"
     /\ fleetThread' = NoThread
     /\ samples' = NoThread
     /\ view' = IF fleetHost # None THEN "Remote" ELSE "Fleet"
     /\ title' = fleetHost
     /\ UNCHANGED <<fleetHost, links, body, paused>>
  \/ /\ view = "Remote"
     /\ fleetHost # None
     /\ fleetHost' = None
     /\ entries' = NoEntries
     /\ view' = "Fleet"
     /\ title' = None
     /\ UNCHANGED <<fleetThread, links, tiles, focus, samples, paused>>
  \/ /\ view = "Remote"
     /\ fleetHost = None
     /\ remoteClient' = None
     /\ clientUp' = FALSE
     /\ view' = "Groups"
     /\ title' = None
     /\ UNCHANGED <<fleetHost, fleetThread, up, body, samples, paused>>
  \/ /\ view \in {"Manual", "Scope", "Fleet"}
     /\ view' = "Groups"
     /\ UNCHANGED <<title, fleetHost, fleetThread, links, body, samples, paused>>

\* The keys that switch views drop the drill first (clear_fleet_drill).
SwitchView(to) ==
  /\ view' = to
  /\ title' = IF to = "Remote" THEN title ELSE None
  /\ fleetHost' = None
  /\ fleetThread' = NoThread
  /\ UNCHANGED <<links, body, samples, paused>>

ManualKey == SwitchView(IF view = "Manual" THEN "Groups" ELSE "Manual")
FaceKey == SwitchView(IF view = "Fleet" THEN "Groups" ELSE "Fleet")
ScopeKey ==
  SwitchView(CASE view = "Scope" -> "Groups"
               [] view \in {"Groups", "Threads", "Manual"} -> "Scope"
               [] OTHER -> view)

PauseKey ==
  /\ view \in {"Groups", "Remote"}
  /\ paused' = ~paused
  /\ UNCHANGED <<drill, links, body, samples>>

\* Left and Right while paused show an older or newer refresh: the list of
\* hosts, whichever view is open.
Scrub ==
  /\ view \in {"Groups", "Remote"}
  /\ paused
  /\ entries' = HostList
  /\ UNCHANGED <<drill, links, tiles, focus, samples, paused>>

Arrow ==
  /\ view \in {"Groups", "Remote"}
  /\ focus' \in tiles
  /\ UNCHANGED <<drill, links, entries, tiles, samples, paused>>

-----------------------------------------------------------------------------
(* Children exit on their own.                                             *)

ChildExits ==
  \/ \E h \in Host :
       /\ up[h]
       /\ up' = [up EXCEPT ![h] = FALSE]
       /\ UNCHANGED <<drill, remoteClient, clientUp, body, samples, paused>>
  \/ /\ clientUp
     /\ clientUp' = FALSE
     /\ UNCHANGED <<drill, remoteClient, up, body, samples, paused>>

Poll ==
  \/ Refresh \/ HostLost \/ ClientLost
  \/ \E labels \in SUBSET App : HostPoll(labels) \/ ClientPoll(labels)

Next ==
  \/ Poll
  \/ \E h \in Host : EnterHost(h)
  \/ EnterThreads \/ Connect \/ Esc
  \/ ManualKey \/ FaceKey \/ ScopeKey
  \/ PauseKey \/ Scrub \/ Arrow
  \/ ChildExits

\* The main loop keeps turning and running daemons keep printing.
Fairness == WF_vars(Poll)

Spec == Init /\ [][Next]_vars
FairSpec == Spec /\ Fairness

-----------------------------------------------------------------------------
(* Properties.                                                             *)

TypeOK ==
  /\ view \in View
  /\ title \in Host \cup {None}
  /\ fleetHost \in Host \cup {None}
  /\ fleetThread \in (Host \X Label) \cup {NoThread}
  /\ remoteClient \in Host \cup {None}
  /\ clientUp \in BOOLEAN
  /\ up \in [Host -> BOOLEAN]
  /\ entries \in [of : Host \cup {"list", None}, labels : SUBSET Label]
  /\ tiles \in SUBSET Label
  /\ focus \in Label \cup {None}
  /\ samples \in (Host \X Label) \cup {NoThread}
  /\ paused \in BOOLEAN

\* What is on the screen is of what was entered, whichever views, connections
\* and losses came before: the view of a host never shows the rows of another
\* host, a thread view never threads sampled for another drill.
OwnData ==
  /\ view = "Remote" /\ fleetHost # None => entries.of \in {fleetHost, "list", None}
  /\ view = "Threads" => samples \in {NoThread, fleetThread}

\* A host that was lost does not stay on screen.
LostHostLeft ==
  \A h \in Host :
    (view = "Remote" /\ fleetHost = h /\ ~up[h])
      ~> ~(view = "Remote" /\ fleetHost = h)

\* Outside Remote the list of hosts comes back by itself, with a row of it
\* focused, whatever an earlier view left behind.
ListComesBack ==
  <>[](view # "Remote" /\ ~paused) => <>[](entries = HostList /\ focus \in Host)

\* The view of an entered host ends up showing that host.
EnteredHostShown ==
  \A h \in Host :
    <>[](view = "Remote" /\ fleetHost = h /\ up[h] /\ ~paused) =>
      <>[](entries.of = h)
=============================================================================
