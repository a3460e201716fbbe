-------------------------- MODULE MCLocalSampling --------------------------
(* The rows: two processes of two kinds, a program of the user in a unit and *)
(* one of another user in the same unit.  The threads: two in two groups, in *)
(* the heat map, the detail and the overlay.                                 *)
EXTENDS LocalSampling, ThreadViews, TLC

MCKinds == { [comm |-> "web", unit |-> "www", exe |-> "web", mine |-> TRUE],
             [comm |-> "db", unit |-> "www", exe |-> "", mine |-> FALSE] }

CONSTANT Parts

VARIABLE part

MCInit ==
  /\ part \in Parts
  /\ IF part = "rows" THEN SamplingInit /\ Closed /\ thr = [t \in Tids |-> None]
     ELSE /\ ThreadsInit
          /\ SamplingInit /\ \A p \in Pids : procs[p] = None

MCNext ==
  /\ UNCHANGED part
  /\ \/ part = "rows" /\ SamplingNext /\ UNCHANGED threadVars
     \/ part = "map" /\ MapPart /\ UNCHANGED samplingVars
     \/ part = "detail" /\ DetailPart /\ UNCHANGED samplingVars
     \/ part = "overlay" /\ OverlayPart /\ UNCHANGED samplingVars

MCSpec == MCInit /\ [][MCNext]_<<part, samplingVars, threadVars>>

Symmetric == Permutations(Pids) \cup Permutations(Groups)
=============================================================================
