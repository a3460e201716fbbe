-------------------------------- MODULE Rows --------------------------------
(* The rows of the body in local mode and the replay ring: which groups    *)
(* have a row and in what order, how rows of groups that are gone fade,    *)
(* pausing and scrubbing.  Values are left out: a row is a label and       *)
(* whether it fades, and sorting by a metric is any order.                 *)
EXTENDS Option, Integers, SequencesExt, StableOrder

CONSTANTS Groupings,  \* the group labels there may be under each GroupBy, in cycle order
          Top,        \* --top, 0 for no limit
          Retention,  \* RETENTION, in units of time
          Depth       \* --history-depth

Label == UNION {Groupings[i] : i \in DOMAIN Groupings}

ASSUME RowsAssumption ==
  /\ Groupings \in Seq(SUBSET Label) /\ Len(Groupings) > 0
  /\ \A i \in DOMAIN Groupings : IsFiniteSet(Groupings[i])
  /\ Top \in Nat /\ Retention \in Nat \ {0} /\ Depth \in Nat \ {0}
  /\ None \notin Nat

VARIABLES
  by,       \* group_by, a position of Groupings
  stable,   \* stable_order
  seen,     \* last_seen, as the time since then up to Retention, or None
  entries,  \* entries
  history,  \* the replay ring, oldest first
  cursor,   \* history_cursor, a position of the ring, or None
  alive,    \* the groups in the last sample (history)
  shown     \* "live": entries are of the last refresh, "replay": of the ring under the
            \* cursor, "blank": emptied by g, "stale": none of these (history)

vars == <<by, stable, seen, entries, history, cursor, alive, shown>>

Init == /\ by = 1 /\ stable = << >> /\ entries = << >>
        /\ seen = [l \in Label |-> None]
        /\ history = << >> /\ cursor = None
        /\ alive = {} /\ shown = "blank"

---------------------------------------------------------------------------
Seen(sample) == [l \in Label |-> IF l \in sample THEN 0 ELSE seen[l]]

\* Faults: a unit too early; the time counted from when the row was last shown.
KeptShort(l, sample) == l \in sample \/ seen[l] < Retention - 1
KeptForever(l, sample) == l \in sample \/ l \in ToSet(stable)

\* A group keeps its place while it lives and for RETENTION after.
Kept(l, sample) == l \in sample \/ seen[l] < Retention

Retained(sample) == Only(stable, {l \in ToSet(stable) : Kept(l, sample)})

\* Fault: all rows are sorted again.
OrdersSorted(sample) == SetToSeqs(ToSet(Retained(sample)) \cup sample)

\* Newcomers follow, in the order of the sort metric.
Orders(sample) == {Retained(sample) \o new : new \in SetToSeqs(sample \ ToSet(stable))}

\* Fault: whether a row fades is read off the time.
RowByTime(l, sample) == [label |-> l, fading |-> seen[l] # 0]

Row(l, sample) == [label |-> l, fading |-> l \notin sample]

Shown(order, sample) ==
  LET n == IF Top > 0 /\ Top < Len(order) THEN Top ELSE Len(order)
  IN  [i \in 1..n |-> Row(order[i], sample)]

Pushed(rows) == LET grown == Append(history, rows)
                IN  IF Len(grown) > Depth THEN Tail(grown) ELSE grown

---------------------------------------------------------------------------
\* A refresh whose sample succeeds.
Refresh(sample) ==
  /\ cursor = None
  /\ seen' = Seen(sample)
  /\ stable' \in Orders(sample)
  /\ entries' = Shown(stable', sample)
  /\ history' = Pushed(entries')
  /\ alive' = sample /\ shown' = "live"
  /\ UNCHANGED <<by, cursor>>

\* Fault: a paused refresh still adds to the ring.
RefreshFailsPaused ==
  /\ history' = Pushed(entries)
  /\ UNCHANGED <<by, stable, seen, entries, cursor, alive, shown>>

\* One whose sample fails: the rows stay, and are entered in the ring again.
RefreshFails ==
  /\ cursor = None
  /\ history' = Pushed(entries)
  /\ UNCHANGED <<by, stable, seen, entries, cursor, alive, shown>>

Tick == /\ seen' = [l \in Label |-> IF seen[l] \in {None, Retention} THEN seen[l] ELSE seen[l] + 1]
        /\ UNCHANGED <<by, stable, entries, history, cursor, alive, shown>>

NextBy == IF by = Len(Groupings) THEN 1 ELSE by + 1

\* Fault: g leaves the order of the old groups.
GroupKeyKeepingOrder ==
  /\ by' = NextBy
  /\ entries' = << >> /\ shown' = "blank"
  /\ UNCHANGED <<stable, seen, history, cursor, alive>>

\* g
GroupKey ==
  /\ by' = NextBy
  /\ stable' = << >> /\ entries' = << >> /\ shown' = "blank"
  /\ UNCHANGED <<seen, history, cursor, alive>>

\* s sorts the order, which the next refresh shows.
SortKey ==
  /\ stable' \in SetToSeqs(ToSet(stable))
  /\ shown' = IF shown = "live" THEN "stale" ELSE shown
  /\ UNCHANGED <<by, seen, entries, history, cursor, alive>>

\* p
PauseKey ==
  /\ IF cursor # None THEN cursor' = None
                      ELSE history # << >> /\ cursor' = Len(history)
  /\ shown' = IF shown = "replay" THEN "stale" ELSE shown
  /\ UNCHANGED <<by, stable, seen, entries, history, alive>>

\* The arrows, while paused.
Scrub(to) ==
  /\ cursor # None /\ to \in DOMAIN history /\ to \in {cursor - 1, cursor + 1}
  /\ cursor' = to
  /\ entries' = history[to] /\ shown' = "replay"
  /\ UNCHANGED <<by, stable, seen, history, alive>>

Next == \/ \E sample \in SUBSET Groupings[by] : Refresh(sample)
        \/ RefreshFails
        \/ Tick
        \/ GroupKey
        \/ SortKey
        \/ PauseKey
        \/ \E to \in 1..Depth : Scrub(to)

Spec == Init /\ [][Next]_vars

\* /proc can be read, time passes, and the main loop refreshes on a timer.
FairSpec == /\ Spec
            /\ WF_vars(Tick)
            /\ WF_vars(\E sample \in SUBSET Groupings[by] : Refresh(sample))

---------------------------------------------------------------------------
(* Properties.                                                             *)

Labels(rows) == {rows[i].label : i \in DOMAIN rows}
RowSeqs == {rows \in UNION {[1..n -> [label : Label, fading : BOOLEAN]] : n \in 0..Cardinality(Label)} :
              Cardinality(Labels(rows)) = Len(rows)}

\* No group has two places, nor two rows, and every place is of a group of the
\* grouping in force (stable_order).
TypeOK ==
  /\ by \in DOMAIN Groupings
  /\ IsInjective(stable) /\ ToSet(stable) \subseteq Groupings[by]
  /\ seen \in [Label -> 0..Retention \cup {None}]
  /\ entries \in RowSeqs /\ history \in Seq(RowSeqs) /\ Len(history) <= Depth
  /\ cursor \in 1..Depth \cup {None}

\* The screen tells the truth about the moment it claims to show.  Right after a
\* refresh no live group is shown fading and no dead one alive, and no live group
\* is without a row unless --top is used up.  While paused the ring does not move
\* under the cursor, and what was scrubbed to stays on the screen (refresh,
\* "display frozen on selected history entry").
RowsTrue ==
  /\ shown = "live" =>
       /\ \A i \in DOMAIN entries : entries[i].fading <=> entries[i].label \notin alive
       /\ Top = 0 \/ Len(stable) <= Top => alive \subseteq Labels(entries)
  /\ cursor # None =>
       /\ cursor \in DOMAIN history
       /\ shown = "replay" => entries = history[cursor]

\* A refresh never swaps two places, whatever the values, and whoever dies or
\* returns within the retention (refresh, "existing rows keep their position"),
\* and takes no row from the screen before its group was gone for that long.
PlacesKept ==
  [][(\E sample \in SUBSET Groupings[by] : Refresh(sample)) =>
       /\ \A a, b \in ToSet(stable) \cap ToSet(stable') :
            Before(a, b, stable) => Before(a, b, stable')
       /\ shown = "live" =>
            \A l \in Labels(entries) \ Labels(entries') : seen'[l] = Retention]_vars

\* A group that is gone for good loses its row.
FadedRowsGo == \A l \in Label :
  <>[](l \notin alive /\ cursor = None) => <>[](l \notin Labels(entries))

=============================================================================
