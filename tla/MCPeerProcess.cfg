CONSTANTS
  c1 = c1 c2 = c2 c3 = c3
  Conns = {c1, c2, c3}
  NULL = NULL
SPECIFICATION FairSpec
INVARIANTS FreedAfterUse RecordThere
PROPERTIES IsFifo EveryThreadReleased
\* The process ends.
CHECK_DEADLOCK FALSE
