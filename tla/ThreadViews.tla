---------------------------- MODULE ThreadViews ----------------------------
(* The threads of a group, in local mode: the heat map of the thread view,   *)
(* the detail of the fleet face and the distribution overlay of the list.    *)
(* Each of the three keeps a snapshot of its own of the counters of the      *)
(* threads it shows, and shows the difference to the next one.  All take the *)
(* processes of a group from the snapshot of LocalSampling, which may be     *)
(* older than the threads.                                                   *)
(*                                                                           *)
(* A process has one thread.  Two counters stand for all, and grow together: *)
(* cpu, always read, and io, read by the heat maps and, when a disk metric   *)
(* is shown, by the overlay.                                                 *)
EXTENDS Option, Saturating

CONSTANTS Tids, Groups,
          MaxWork  \* bound: the work of a thread

VARIABLES
  thr,      \* tid -> [of, work]: the group it runs in and its counters, or None
  groups,   \* Snapshot::groups: None or label -> threads at the last refresh
  view,     \* AppState::view: "Groups", "Threads", "Fleet" or "Other"
  label,    \* of the thread view, None in another
  drilled,  \* fleet_thread: the thread view was entered from the fleet face
  metric,   \* of the active side
  heat,     \* thread_snap, thread_samples
  detail,   \* fleet_detail_label, fleet_detail_snap, fleet_detail_samples
  over      \* label -> group_snaps, group_member_vals

screen == <<view, label, drilled, metric>>
threadVars == <<thr, groups, screen, heat, detail, over>>

LiveThreads == {t \in Tids : thr[t] # None}
NoThreads == <<>>
Metrics == {"Cpu", "DiskRead", "Memory"}

---------------------------------------------------------------------------
(* sample_threads.                                                          *)

\* The threads of a group, by the last snapshot of the machine.
ThreadsOf(l) == IF groups' = None THEN {} ELSE groups'[l]

\* ThreadSnapshot.  of: the group it was taken for (history).
Basis(l, io) ==
  [of |-> l, io |-> io,
   tids |-> [t \in ThreadsOf(l) \cap LiveThreads |-> thr[t].work]]

\* The counter of a metric; 0 for a thread that is not there, or a file not read.
Count(b, t, m) ==
  IF t \in DOMAIN b.tids /\ (m = "DiskRead" => b.io) THEN b.tids[t] ELSE 0

\* What the threads did between two snapshots, one that is new all it ever did;
\* nothing without an earlier one, or when the system-wide counter stood still.
Rates(b, now, m, moved) ==
  [t \in DOMAIN now.tids |->
     IF b = None \/ ~moved THEN 0 ELSE Minus(Count(now, t, m), Count(b, t, m))]

---------------------------------------------------------------------------
(* refresh.                                                                 *)

\* The snapshot of the machine; None when it could not be taken.
Snapshot == [l \in Groups |-> {t \in LiveThreads : thr[t].of = l}]

\* A group that is gone leaves the heat map as it was.  One entered from the
\* fleet face is then overwritten by the stream of the place, which the local
\* one does not have.
HeatMap(moved) ==
  LET now == Basis(label, TRUE)
      read == IF view # "Threads" \/ ThreadsOf(label) = {} THEN heat
              ELSE [basis |-> now, samples |-> Rates(heat.basis, now, "Cpu", moved)]
  IN heat' = IF drilled THEN [read EXCEPT !.samples = NoThreads] ELSE read

\* Fault: the snapshot of the group selected before is kept.
DetailKept(l, moved) ==
  LET now == Basis(l, TRUE)
  IN detail' = IF l = None THEN [detail EXCEPT !.of = None, !.samples = NoThreads]
               ELSE IF ThreadsOf(l) = {} THEN [detail EXCEPT !.of = l, !.samples = NoThreads]
               ELSE [of |-> l, basis |-> now, samples |-> Rates(detail.basis, now, "Cpu", moved)]

\* The detail of the group selected in the fleet face, if any.
Detail(l, moved) ==
  LET b == IF detail.of = l THEN detail.basis ELSE None
      now == Basis(l, TRUE)
  IN detail' = IF l = None THEN [detail EXCEPT !.of = None, !.samples = NoThreads]
               ELSE IF ThreadsOf(l) = {} THEN [of |-> l, basis |-> b, samples |-> NoThreads]
               ELSE [of |-> l, basis |-> now, samples |-> Rates(b, now, "Cpu", moved)]

\* A display that is frozen holds it back.  selection: of the fleet face.
RefreshThreads(selection) ==
  /\ groups' \in {None, Snapshot}
  /\ \E moved \in BOOLEAN :
       /\ HeatMap(moved)
       /\ IF view = "Fleet" THEN \E l \in selection : Detail(l, moved)
          ELSE UNCHANGED detail
  /\ UNCHANGED <<thr, screen, over>>

---------------------------------------------------------------------------
(* sample_histograms, on a clock of its own and whatever is on the screen.  *)

NoSeries == [basis |-> None, vals |-> None]

\* The series of a group keeps its last values when none of its threads is left.
Series(l, moved) ==
  LET now == Basis(l, metric = "DiskRead")
      rates == Rates(over[l].basis, now, metric, moved)
  IN [basis |-> now,
      vals |-> IF DOMAIN rates = {} THEN over[l].vals ELSE [metric |-> metric, of |-> rates]]

\* Groups out of sight, or fading, are forgotten; a metric that threads have
\* no share of leaves everything as it is.
Histograms ==
  /\ groups # None /\ metric # "Memory"
  /\ UNCHANGED <<thr, groups, screen, heat, detail>>
  /\ \E visible \in SUBSET {l \in Groups : groups[l] # {}}, moved \in BOOLEAN :
       over' = [l \in Groups |-> IF l \in visible THEN Series(l, moved) ELSE NoSeries]

---------------------------------------------------------------------------
(* Keys.                                                                    *)

NoHeat == [basis |-> None, samples |-> NoThreads]

Show(v) == view' = v /\ UNCHANGED <<thr, groups, over>>

\* Enter in the list ends with a refresh, unless the display is frozen.
OpenThreads(l) ==
  /\ view = "Groups" /\ view' = "Threads" /\ label' = l
  /\ \/ groups' = groups /\ heat' = NoHeat
     \/ /\ groups' \in {None, Snapshot}
        /\ heat' = IF ThreadsOf(l) = {} THEN NoHeat
                   ELSE LET now == Basis(l, TRUE)
                        IN [basis |-> now, samples |-> Rates(None, now, "Cpu", TRUE)]
  /\ UNCHANGED <<thr, drilled, metric, detail, over>>

\* Enter in the fleet face: the snapshot of the last thread view stays.
OpenFromFace(l) ==
  /\ view = "Fleet"
  /\ Show("Threads") /\ label' = l /\ drilled' = TRUE
  /\ heat' = [heat EXCEPT !.samples = NoThreads]
  /\ UNCHANGED <<metric, detail>>

\* Esc goes back to where the thread view was entered from.
Esc ==
  /\ view = "Threads"
  /\ Show(IF drilled THEN "Fleet" ELSE "Groups")
  /\ heat' = [basis |-> IF drilled THEN heat.basis ELSE None, samples |-> NoThreads]
  /\ label' = None /\ drilled' = FALSE
  /\ UNCHANGED <<metric, detail>>

\* f opens and closes the fleet face; d and m go elsewhere, and come back.
Switch ==
  /\ \/ Show(IF view = "Fleet" THEN "Groups" ELSE "Fleet")
     \/ Show(IF view = "Other" THEN "Groups" ELSE "Other")
  /\ label' = None /\ drilled' = FALSE
  /\ UNCHANGED <<metric, heat, detail>>

\* The arrows and s choose another metric; g, another grouping, which puts
\* every thread in another group.
Metric ==
  /\ metric' \in Metrics
  /\ UNCHANGED <<thr, groups, view, label, drilled, heat, detail, over>>

Regroup ==
  /\ view = "Groups"
  /\ \E of \in [LiveThreads -> Groups] :
       thr' = [t \in Tids |-> IF t \in LiveThreads THEN [thr[t] EXCEPT !.of = of[t]] ELSE None]
  /\ groups' = None
  /\ UNCHANGED <<screen, heat, detail, over>>

---------------------------------------------------------------------------
(* The threads.                                                             *)

Machine(t) ==
  /\ \/ /\ t \notin LiveThreads
        /\ \E l \in Groups : thr' = [thr EXCEPT ![t] = [of |-> l, work |-> 0]]
     \/ /\ t \in LiveThreads
        /\ \/ thr' = [thr EXCEPT ![t] = None]
           \/ \E l \in Groups \ {thr[t].of} : thr' = [thr EXCEPT ![t].of = l]
           \/ thr[t].work < MaxWork /\ thr' = [thr EXCEPT ![t].work = @ + 1]
  /\ UNCHANGED <<groups, screen, heat, detail, over>>

---------------------------------------------------------------------------
Closed ==
  /\ groups = None
  /\ view = "Groups" /\ label = None /\ drilled = FALSE
  /\ metric = "Cpu"
  /\ heat = NoHeat
  /\ detail = [of |-> None, basis |-> None, samples |-> NoThreads]
  /\ over = [l \in Groups |-> NoSeries]

ThreadsInit ==
  /\ thr \in [Tids -> {None} \cup [of : Groups, work : {0, 1}]]
  /\ Closed

Anyone == Groups \cup {None}
Threads == \E t \in Tids : Machine(t)
Shared == Threads \/ Regroup \/ Switch

\* The three views share nothing but the snapshot of the machine and the screen.
MapPart == Shared \/ RefreshThreads({None}) \/ Esc \/ \E l \in Groups : OpenThreads(l) \/ OpenFromFace(l)
DetailPart == Shared \/ RefreshThreads(Anyone)
OverlayPart == Threads \/ Regroup \/ RefreshThreads({None}) \/ Histograms \/ Metric

ThreadsNext == MapPart \/ DetailPart \/ OverlayPart

ThreadsSpec == ThreadsInit /\ [][ThreadsNext]_threadVars

---------------------------------------------------------------------------
(* Properties.                                                             *)

\* The rates of a group shown after a snapshot: nothing, unless the snapshot was
\* of that group, and then what the threads of the snapshot did since.
RatesSince(b, l, rates) ==
  \A t \in DOMAIN rates :
    \/ rates[t] = 0
    \/ b # None /\ b.of = l /\ (t \in DOMAIN b.tids => rates[t] = thr[t].work - b.tids[t])

\* A thread shows what it did since the group on the screen was last read, never
\* what it did before or for another group, though groups are selected, left
\* and come back to, and threads moved, in between (main.rs:2776).  In the
\* overlay, of a file that was read both times.
ThreadRates ==
  [][/\ heat' # heat => RatesSince(heat.basis, label, heat'.samples)
     /\ detail' # detail => RatesSince(detail.basis, detail'.of, detail'.samples)
     /\ \A l \in Groups :
          (over'[l].basis # over[l].basis /\ over'[l].vals # None /\ over'[l].vals # over[l].vals
             /\ (metric = "DiskRead" /\ over[l].basis # None => over[l].basis.io)) =>
          RatesSince(over[l].basis, l, over'[l].vals.of)]_threadVars

\* ui.rs:2300 "[Enter]  open thread heatmap for the selected group": a refresh
\* of a thread view whose group has threads lists them.
ThreadsListed ==
  [][(RefreshThreads(Anyone) /\ view = "Threads" /\ ThreadsOf(label) # {}) => heat'.samples # NoThreads]_threadVars
=============================================================================
