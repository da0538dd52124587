CONSTANTS
  p1 = p1 p2 = p2
  Size = 8 NumOfBlocks = 2 MaxMessage = 2
  Peers = {p1}
  Failures = {"short"}
  Nobody = Nobody Hole = Hole
SPECIFICATION Spec
INVARIANTS WrittenInPlace
\* The download ends, or waits for ever where DownloadEnds says so.
CHECK_DEADLOCK FALSE
