\* Two machines, one pod, all modes.
SPECIFICATION MCSpec
CONSTANTS
  Vms <- MCVms
  Running <- MCRunning
  Stranger = Stranger
  Pods = {p1}
  Modes = {"proxmox", "kube", "nomad"}
  None = None
  MaxWork = 2
INVARIANTS FewStalePackets
PROPERTIES EnteredIsMember GroupingArrives PveRowsAddUp
