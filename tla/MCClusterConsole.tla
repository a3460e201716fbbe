------------------------- MODULE MCClusterConsole -------------------------
(* Two machines of one name, in and out of a pool.                         *)
EXTENDS ClusterConsole, PveSample

MCVms == << [name |-> "web", pool |-> "prod", tag |-> "", node |-> "pve1"],
            [name |-> "web", pool |-> "", tag |-> "web", node |-> "pve1"] >>

MCRunning == {{1, 2}, {2}}

VARIABLE part

\* Apart, since what is counted does not depend on what is listed and entered.
MCInit ==
  /\ Init /\ PollerInit
  /\ \/ part = "console"
     \/ part = "rates" /\ mode = "proxmox" /\ pc = "load" /\ enableRemote

MCNext ==
  /\ UNCHANGED part
  /\ \/ part = "console" /\ Next /\ UNCHANGED pollerVars
     \/ part = "rates" /\ PollerNext /\ UNCHANGED vars

MCSpec == MCInit /\ [][MCNext]_<<part, vars, pollerVars>> /\ Fairness
=============================================================================
