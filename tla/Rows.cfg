\* Two groupings of two groups, one place on the screen.  Apart from them the
\* alerts of one group, since groups share no state, repeated after three units
\* of time.
SPECIFICATION MCSpec
CONSTANTS
  Groupings <- MCGroupings
  Top = 1
  Retention = 2
  Depth = 2
  None = None
  Group = {nginx}
  Sample <- MCSample
  RateLimit = 3
INVARIANTS RowsTrue MarkedWasAlerted
PROPERTIES PlacesKept FadedRowsGo OngoingAlertsSpaced Reminded
