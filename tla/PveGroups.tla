----------------------------- MODULE PveGroups -----------------------------
(* The machines of a cluster and the rows they are grouped in.              *)
EXTENDS Naturals, Sequences, TLC

CONSTANTS
  Vms,   \* machines as the API lists them: [name, pool, tag, node], "" if absent
  None

Vm == DOMAIN Vms

ASSUME PveGroupsAssumption ==
  Vms \in Seq([name : STRING, pool : STRING, tag : STRING, node : STRING])

Grouping == {"Flat", "Pool", "Tag", "Node"}

Or(s, default) == IF s = "" THEN default ELSE s
VmLabel(v) == Or(Vms[v].name, "vm" \o ToString(v))
GroupLabel(by, v) == CASE by = "Flat" -> VmLabel(v)
                       [] by = "Pool" -> Or(Vms[v].pool, "(no pool)")
                       [] by = "Tag" -> Or(Vms[v].tag, "(untagged)")
                       [] by = "Node" -> Vms[v].node

\* The machine a row stands for when it is entered: the first of a group,
\* but the last of several machines of one name.
MetaOf(p, label) ==
  LET S == {v \in p.vms : GroupLabel(p.by, v) = label}
  IN IF S = {} THEN None
     ELSE CHOOSE v \in S : \A w \in S : IF p.by = "Flat" THEN w <= v ELSE v <= w
=============================================================================
