CONSTANTS
  m1 = m1 m2 = m2 m3 = m3 d1 = d1 d2 = d2 F = F G = G F0 = F0 F1 = F1 G0 = G0
  NoConn = NoConn NoBlock = NoBlock NoPort = NoPort
  Conns = {m1,m2,m3}
  Main = {m1,m2,m3}
  Files = {F,G}
  Blocks = {F0,F1}
  OwnerOf <- SeedersOwner
  Ip <- SeedersIp
  PortOf <- SamePort
  FileOf <- TheFileOf
  AnnFiles <- SeedersFiles
  AnnBlocks <- SeedersBlocks
  NumOf <- SeedersNum
  Wants <- WantsF
  Attempts = 2
SPECIFICATION FairSpec
INVARIANTS TypeOK FileBlocksLive ListedBlockInFile EmptyFileWasAnnounced CompleteFlagRight
PROPERTIES CleanupEnds HelloEnds
\* Clients may all leave for good, and the lock cycle stops the server.
CHECK_DEADLOCK FALSE
