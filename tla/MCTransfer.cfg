CONSTANTS
  p1 = p1 p2 = p2
  Size = 7 NumOfBlocks = 2 MaxMessage = 2
  Peers = {p1, p2}
  Failures = {"part", "peer", "lost", "server", "kill"}
  Nobody = Nobody Hole = Hole
SPECIFICATION FairSpec
INVARIANTS TypeOK AnswerIsMine WrittenInPlace ReadyIffStored OneBlockAtRisk SilenceExplained
PROPERTIES KeepsPromise DownloadEnds
\* The download ends, or waits for ever where DownloadEnds says so.
CHECK_DEADLOCK FALSE
