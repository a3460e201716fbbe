----------------------------- MODULE FleetFace -----------------------------
(***************************************************************************)
(* Selection in the fleet face: a spine of hosts, and beside it the        *)
(* process groups of the selected host, whose rows change while the user   *)
(* moves.                                                                  *)
(*                                                                         *)
(* The spine is navigated by position, the groups by identity: the cursor  *)
(* is pinned to a label and put back on it by every refresh, after the     *)
(* rows of each host have been brought into that host's running order      *)
(* (stabilize_fleet_entries, sync_fleet_primary_to_label).  The selected   *)
(* (host, group) is what the poll asks the daemons to sample               *)
(* (drill_focus); a drill into a host or a group overrides the face.       *)
(*                                                                         *)
(* A snapshot is the sequence of its group labels, in the order it lists   *)
(* them.  The views are those the selection can tell apart: "Groups" is    *)
(* also the manual and the scope, the views that poll and ignore the       *)
(* face's keys.                                                            *)
(***************************************************************************)
EXTENDS Naturals, Sequences, FiniteSets, SequencesExt, StableOrder

CONSTANTS
  Hosts,   \* number of fleet hosts; a host is its position in fleet_clients
  Daemon,  \* hosts with a connection that is not a thin probe
  App,     \* group labels
  None     \* the empty Option

Host == 1 .. Hosts
Region == {"Spine", "Primary", "Detail"}
NoThread == <<>>
View == {"Groups", "Fleet", "Remote", "Threads"}
Rows == UNION {SetToAllKPermutations(S) : S \in SUBSET App}

ASSUME FleetFaceAssumption ==
  /\ Hosts \in Nat \ {0}
  /\ Daemon \subseteq Host
  /\ IsFiniteSet(App)
  /\ None \notin App \cup Host

VARIABLES
  view,
  fleetHost,    \* fleet_host: the entered host
  fleetThread,  \* fleet_thread: the drilled <<host, group>>, or NoThread
  region, spine, cursor,
  pin,          \* fleet_primary_label
  rows,         \* labels of each host's snapshot, as listed
  order,        \* stable_order of each FleetConn
  paused,       \* history_cursor is set
  routed,       \* the <<host, group>> drill_focus gave the last routing of focus
  quiet         \* the last step was a refresh of the face (not in the code)

drill == <<view, fleetHost, fleetThread>>
selection == <<region, spine, cursor, pin>>
data == <<rows, order>>
vars == <<drill, selection, data, paused, routed, quiet>>

Init ==
  /\ view = "Groups"
  /\ fleetHost = None
  /\ fleetThread = NoThread
  /\ region = "Primary"
  /\ spine = 1
  /\ cursor = 0
  /\ pin = None
  /\ rows = [h \in Host |-> <<>>]
  /\ order = [h \in Host |-> <<>>]
  /\ paused = FALSE
  /\ routed = <<None, None>>
  /\ quiet = FALSE

-----------------------------------------------------------------------------
(* Rows.                                                                   *)

Least(m, n) == IF m < n THEN m ELSE n
Labels(seq) == ToSet(seq)
At(seq, i) == IF i < Len(seq) THEN seq[i + 1] ELSE None   \* get(i), from 0

\* stabilize_fleet_entries: labels still there keep their place, newcomers
\* follow by CPU, which any order of theirs can be.
AsListed(old, new) == new
Stabilize(old, new) == Only(old, Labels(new)) \o Only(new, Labels(new) \ Labels(old))

\* resolve_fleet_primary: the cursor and the pin after the rows have changed.
ResolveByPosition(seq, label, pos) ==
  [cursor |-> IF seq = <<>> THEN 0 ELSE Least(pos, Len(seq) - 1),
   label  |-> IF seq = <<>> THEN label ELSE seq[Least(pos, Len(seq) - 1) + 1]]
ResolveUnclamped(seq, label, pos) ==
  [cursor |-> pos, label |-> IF label = None THEN At(seq, pos) ELSE label]
Resolve(seq, label, pos) ==
  IF seq = <<>> THEN [cursor |-> 0, label |-> label]
  ELSE IF label \in Labels(seq)
    THEN [cursor |-> (CHOOSE i \in 1 .. Len(seq) : seq[i] = label) - 1,
          label |-> label]
  ELSE [cursor |-> Least(pos, Len(seq) - 1),
        label |-> seq[Least(pos, Len(seq) - 1) + 1]]

-----------------------------------------------------------------------------
(* The main loop's two ways to take in snapshots.                          *)

\* refresh, with a fresh snapshot of each host in the domain of fresh.  It
\* runs in every view but Remote and does nothing while paused.
Refresh(fresh) ==
  LET listed(h) == Stabilize(order[h], fresh[h])
      fixed == Resolve(rows'[spine], pin, cursor)
  IN  /\ view # "Remote"
      /\ ~paused
      /\ order' = [h \in Host |->
           IF h \in DOMAIN fresh THEN listed(h) ELSE order[h]]
      /\ rows' = [h \in Host |->
           IF h \in DOMAIN fresh THEN listed(h) ELSE rows[h]]
      /\ cursor' = fixed.cursor
      /\ pin' = fixed.label
      /\ routed' = IF fleetThread # NoThread THEN fleetThread
                   ELSE <<spine, At(rows'[spine], fixed.cursor)>>
      /\ quiet' = (view = "Fleet")
      /\ UNCHANGED <<drill, region, spine, paused>>

\* The poll of the entered host keeps a fresh snapshot as it is listed, and
\* routes focus to whatever row of the dense body is focused: a group of that
\* host, none yet, or a host, for the body still holds the list of hosts when
\* Esc comes back to it from the threads.
BodyLabels(listed) == Labels(listed) \cup Host

HostPoll(fresh) ==
  /\ view = "Remote"
  /\ fleetHost # None
  /\ rows' = IF fresh = None THEN rows ELSE [rows EXCEPT ![fleetHost] = fresh]
  /\ \E a \in BodyLabels(rows'[fleetHost]) \cup {None} :
       routed' = <<fleetHost, a>>
  /\ quiet' = FALSE
  /\ UNCHANGED <<drill, selection, order, paused>>

\* The ssh child of the entered host has exited.
HostLost ==
  /\ view = "Remote"
  /\ fleetHost # None
  /\ view' = "Fleet"
  /\ fleetHost' = None
  /\ quiet' = FALSE
  /\ UNCHANGED <<fleetThread, selection, data, paused, routed>>

-----------------------------------------------------------------------------
(* Keys.                                                                   *)

NextRegion ==
  [r \in Region |-> CASE r = "Spine" -> "Primary"
                      [] r = "Primary" -> "Detail"
                      [] r = "Detail" -> "Spine"]

\* Left, Right and Tab.
MoveRegion ==
  /\ view = "Fleet"
  /\ region' \in {NextRegion[region], NextRegion[NextRegion[region]]}
  /\ quiet' = FALSE
  /\ UNCHANGED <<drill, spine, cursor, pin, data, paused, routed>>

\* Up and Down in the spine: another host, so the pin is dropped.
MoveSpine(pos) ==
  /\ view = "Fleet" /\ region = "Spine"
  /\ spine' = pos
  /\ cursor' = 0
  /\ pin' = None
  /\ quiet' = FALSE
  /\ UNCHANGED <<drill, region, data, paused, routed>>

SpineKey ==
  \/ MoveSpine(IF spine > 1 THEN spine - 1 ELSE spine)
  \/ MoveSpine(Least(spine + 1, Hosts))

\* Up and Down among the groups pin the row they reach.
MovePrimary(pos) ==
  /\ view = "Fleet" /\ region = "Primary"
  /\ cursor' = pos
  /\ pin' = At(rows[spine], pos)
  /\ quiet' = FALSE
  /\ UNCHANGED <<drill, region, spine, data, paused, routed>>

PrimaryKey ==
  \/ MovePrimary(IF cursor > 0 THEN cursor - 1 ELSE cursor)
  \/ MovePrimary(IF rows[spine] = <<>> THEN cursor
                 ELSE Least(cursor + 1, Len(rows[spine]) - 1))

\* Enter on the spine; a thin or unconnected host only reports an error.
EnterHost ==
  /\ view = "Fleet" /\ region = "Spine"
  /\ spine \in Daemon
  /\ view' = "Remote"
  /\ fleetHost' = spine
  /\ quiet' = FALSE
  /\ UNCHANGED <<fleetThread, selection, data, paused, routed>>

\* Enter in the list of hosts opens a connection of its own, which no fleet
\* marker refers to; Esc, or its loss, leads back to the list.
ConnectHost ==
  /\ view = "Groups"
  /\ Daemon # {}
  /\ view' = "Remote"
  /\ quiet' = FALSE
  /\ UNCHANGED <<fleetHost, fleetThread, selection, data, paused, routed>>

\* Enter on a group of the face, or on a row of the entered host's body.
EnterThreads ==
  /\ \/ /\ view = "Fleet" /\ region = "Primary"
        /\ At(rows[spine], cursor) # None
        /\ fleetThread' = <<spine, At(rows[spine], cursor)>>
     \/ /\ view = "Remote" /\ fleetHost # None
        /\ \E a \in BodyLabels(rows[fleetHost]) :
             fleetThread' = <<fleetHost, a>>
  /\ view' = "Threads"
  /\ quiet' = FALSE
  /\ UNCHANGED <<fleetHost, selection, data, paused, routed>>

\* Esc pops one level.
Esc ==
  /\ \/ /\ view = "Threads"
        /\ fleetThread' = NoThread
        /\ view' = IF fleetHost # None THEN "Remote" ELSE "Fleet"
        /\ UNCHANGED fleetHost
     \/ /\ view = "Remote"
        /\ fleetHost' = None
        /\ view' = IF fleetHost # None THEN "Fleet" ELSE "Groups"
        /\ UNCHANGED fleetThread
     \/ /\ view = "Fleet"
        /\ view' = "Groups"
        /\ UNCHANGED <<fleetHost, fleetThread>>
  /\ quiet' = FALSE
  /\ UNCHANGED <<selection, data, paused, routed>>

\* f: into the face from anywhere, its selection reset, or out of it.
ToggleFaceKeepingDrill ==
  /\ quiet' = FALSE
  /\ IF view = "Fleet"
       THEN view' = "Groups" /\ UNCHANGED selection
       ELSE /\ view' = "Fleet"
            /\ region' = "Primary"
            /\ spine' = 1
            /\ cursor' = 0
            /\ pin' = None
  /\ UNCHANGED <<fleetHost, fleetThread, data, paused, routed>>
ToggleFace ==
  /\ fleetHost' = None
  /\ fleetThread' = NoThread
  /\ quiet' = FALSE
  /\ IF view = "Fleet"
       THEN view' = "Groups" /\ UNCHANGED selection
       ELSE /\ view' = "Fleet"
            /\ region' = "Primary"
            /\ spine' = 1
            /\ cursor' = 0
            /\ pin' = None
  /\ UNCHANGED <<data, paused, routed>>

\* m and d, where they leave for another view: the manual opens from
\* anywhere, the scope from the list and the threads.
LeaveDrillMarked ==
  /\ view # "Groups"
  /\ view' = "Groups"
  /\ quiet' = FALSE
  /\ UNCHANGED <<fleetHost, fleetThread, selection, data, paused, routed>>
LeaveDrill ==
  /\ view # "Groups"
  /\ view' = "Groups"
  /\ fleetHost' = None
  /\ fleetThread' = NoThread
  /\ quiet' = FALSE
  /\ UNCHANGED <<selection, data, paused, routed>>

\* d in the entered host clears the markers and leaves the view.
ScopeKeyInRemote ==
  /\ view = "Remote"
  /\ fleetHost # None
  /\ fleetHost' = None
  /\ fleetThread' = NoThread
  /\ quiet' = FALSE
  /\ UNCHANGED <<view, selection, data, paused, routed>>

PauseKey ==
  /\ view \in {"Groups", "Remote"}
  /\ paused' = ~paused
  /\ quiet' = FALSE
  /\ UNCHANGED <<drill, selection, data, routed>>

\* A thin probe's snapshots list no groups, so they change nothing here.
Fresh == UNION {[S -> Rows] : S \in SUBSET Daemon}

Next ==
  \/ \E fresh \in Fresh : Refresh(fresh)
  \/ \E fresh \in Rows \cup {None} : HostPoll(fresh)
  \/ HostLost
  \/ MoveRegion \/ SpineKey \/ PrimaryKey
  \/ EnterHost \/ ConnectHost \/ EnterThreads \/ Esc
  \/ ToggleFace \/ LeaveDrill \/ ScopeKeyInRemote \/ PauseKey

Spec == Init /\ [][Next]_vars

-----------------------------------------------------------------------------
(* Properties.                                                             *)

TypeOK ==
  /\ view \in View
  /\ fleetHost \in Daemon \cup {None}
  /\ fleetThread \in (Host \X (App \cup Host)) \cup {NoThread}
  /\ region \in Region
  /\ spine \in Host
  /\ cursor \in 0 .. Cardinality(App)
  /\ pin \in App \cup {None}
  /\ rows \in [Host -> Rows]
  /\ order \in [Host -> Rows]
  /\ paused \in BOOLEAN
  /\ routed \in (Host \cup {None}) \X (App \cup Host \cup {None})
  /\ quiet \in BOOLEAN

\* The drill markers are set only in the views they belong to, so the face
\* never routes focus for a drill that was left (clear_fleet_drill).
FaceUnmarked ==
  /\ fleetThread # NoThread <=> view = "Threads"
  /\ fleetHost # None => view \in {"Remote", "Threads"}

\* A drill stays on the host the spine selects, however it is entered and
\* whatever is pressed, so that Esc comes back to the host it left.
DrillOnSpine ==
  /\ fleetHost \in {None, spine}
  /\ fleetThread # NoThread => fleetThread[1] = spine

\* When a poll of the face has run and no key was pressed since, cursor, pin
\* and routed focus name the same group of the selected host.
SelectionSettled ==
  quiet /\ rows[spine] # <<>> =>
    /\ At(rows[spine], cursor) = pin
    /\ routed = <<spine, pin>>

\* Left alone, the face keeps asking for the same group for as long as the
\* host lists it, however the rows come and go around it.
SelectionHeld ==
  [][quiet /\ quiet' /\ routed[2] \in Labels(rows'[spine]) =>
       routed' = routed]_vars

\* Two rows that both stay change places.
Hops(old, new) == \E a, b \in App : Before(a, b, old) /\ Before(b, a, new)

\* Rows shown in a host's running order keep it outside the host's own view,
\* wherever the daemon lists them next and whichever rows leave or join.
OrderedRowsNeverHop ==
  [][view # "Remote" =>
       \A h \in Host : rows[h] = order[h] => ~Hops(rows[h], rows'[h])]_vars
=============================================================================
