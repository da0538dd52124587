CONSTANTS
  m1 = m1 m2 = m2 m3 = m3 d1 = d1 d2 = d2 F = F G = G F0 = F0 F1 = F1 G0 = G0
  NoConn = NoConn NoBlock = NoBlock NoPort = NoPort
  Conns = {m1,m2,m3,d1}
  Main = {m1,m2,m3}
  Files = {F}
  Blocks = {F0}
  OwnerOf <- DownloadOwner
  Ip <- DownloadIp
  PortOf <- DownloadPorts
  FileOf <- TheFileOf
  AnnFiles <- DownloadFiles
  AnnBlocks <- DownloadBlocks
  NumOf <- TheNumOf
  Wants <- WantsF
  Attempts = 2
SPECIFICATION Spec
INVARIANTS AnnouncedFindable EmptyBlockIsTransient HolderIsHonest
\* Clients may all leave for good, and the lock cycle stops the server.
CHECK_DEADLOCK FALSE
