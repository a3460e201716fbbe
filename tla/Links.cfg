\* Two connections, two snapshots each.
SPECIFICATION FairSpec
CONSTANTS
  a = a
  b = b
  dash = dash
  none = none
  Slot = {1, 2}
  Address <- MCAddress
  Dashed = {dash}
  Empty = none
  Unfit = {none}
  Named <- MCNamed
  Label = a
  Interfaces <- MCInterfaces
  Unroutable = {none}
  DnsIps <- MCDnsIps
  MaxTurn <- MCMaxTurn
  MaxOut = 2
INVARIANTS IntervalsAbut NothingForgotten
PROPERTIES ShowsLatest LossTold LetGoEnds
CHECK_DEADLOCK FALSE
