CONSTANTS
  s1 = s1 s2 = s2
  Conns = {s1, s2}
  NoThread = NoThread
SPECIFICATION FairSpec
INVARIANTS CountRight JoinSafe JoinedOnce NoneLeftBehind
PROPERTIES EveryThreadJoined QuietShutdown
\* The process ends.
CHECK_DEADLOCK FALSE
