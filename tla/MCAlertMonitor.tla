-------------------------- MODULE MCAlertMonitor --------------------------
(* Small instances of AlertMonitor for TLC.                                *)
EXTENDS AlertMonitor

\* A single member, a group without load, balanced, one member fallen out, the
\* same with the members listed in another order, concentrated.
MCSample == {<<1>>, <<0, 0, 0, 0, 0>>, <<2, 2, 2, 2, 2>>, <<2, 2, 2, 2, 0>>,
             <<0, 2, 2, 2, 2>>, <<9, 0, 0, 0, 0>>}
=============================================================================
